---- MODULE Spec2Model ----
(***************************************************************************)
(* The instantaneousplanes post-processing plugin                          *)
(* (postproengine/instantaneousplanes.py): the plane loop of               *)
(* postpro_instantaneousplanes.execute, its dispatch of the registered     *)
(* sub-actions, and the execute methods of plot, interpolate, animate,     *)
(* makegif and plot_radial.                                                *)
(*                                                                         *)
(* The program is sequential.  One step of the model is one statement      *)
(* group of execute (load, coordinate conversion, iteration resolution,    *)
(* pickle dump) or one pass of the action loop (check, construct,          *)
(* execute).  A plane's configuration is read when its loop iteration      *)
(* begins, an action's options when the action is constructed, and the     *)
(* readability of image files when the action reads them.                  *)
(***************************************************************************)
EXTENDS Integers, Sequences, FiniteSets, TLC

VARIABLES
    hasimageio,   \* module flag: import imageio succeeded
    required,     \* the required attribute of every registered action class
    planeiter,    \* number of plane configurations whose iteration has begun
    plane,        \* self.yamldictlist[planeiter], the configuration in process
    pc,           \* position in execute
    db,           \* self.db, the loaded dataset
    iters,        \* the local iters and, once resolved, self.iters
    ai,           \* position of the action loop in the action list
    events,       \* calls made for the current plane, in order
    out,          \* options and effects of the action constructed last
    err           \* the exception that left execute, "none" if none did

vars == <<hasimageio, required, planeiter, plane, pc, db, iters, ai, events, out, err>>

---------------------------------------------------------------------------
(* Bounds of the model *)

MaxPlanes == 2      \* plane configurations in yamldictlist
MaxKeys   == 2      \* action keys in one plane configuration
MaxIters  == 2      \* iterations of the sample file that are loaded
MaxTheta  == 3      \* the NTheta option of plot_radial

---------------------------------------------------------------------------
(* Sequences *)

Range(s) == {s[k] : k \in 1..Len(s)}

SeqsUpTo(S, n) == UNION {[1..k -> S] : k \in 0..n}

Injective(s) == \A j, k \in 1..Len(s) : j # k => s[j] # s[k]

Increasing(s) == \A j, k \in 1..Len(s) : j < k => s[j] < s[k]

IsPrefix(s, t) == Len(s) <= Len(t) /\ \A k \in 1..Len(s) : s[k] = t[k]

Positions(s, x) == {k \in 1..Len(s) : s[k] = x}

---------------------------------------------------------------------------
(* The registry of sub-actions *)

\* actionlist, in the order of the @registeraction decorators
ActionOrder == <<"plot", "interpolate", "animate", "makegif", "plot_radial">>

Actions == Range(ActionOrder)

\* The required attribute of the classes: False in plot, animate, makegif
\* and plot_radial; interpolate inherits it from interpolatetemplate, which
\* is defined outside this file, so both values are considered.
RequiredFlags ==
    {r \in [Actions -> BOOLEAN] :
        \A a \in Actions \ {"interpolate"} : r[a] = FALSE}

---------------------------------------------------------------------------
(* Path templates and str.format *)

Fields == {"time", "iplane", "iter"}

\* A template is a sequence of tokens: a replacement field {time}, {iplane},
\* {iter}, or literal text.  <<>> is the empty string.
Templates ==
    { <<>>,
      <<"img">>,
      <<"img", "time">>,
      <<"img", "iplane", "time">>,
      <<"img", "time", "iplane", "iter">> }

\* imagefilename is a required option of animate and makegif: the templates
\* that name a file
ImageTemplates == Templates \ { <<>> }

\* template.format(**args) raises KeyError for a field that args lacks
FormatOK(tmpl, args) ==
    \A k \in 1..Len(tmpl) : tmpl[k] \in Fields => tmpl[k] \in DOMAIN args

\* template.format(**args): every field replaced by the text of its value
Format(tmpl, args) ==
    [k \in 1..Len(tmpl) |->
        IF tmpl[k] \in Fields
        THEN [lit |-> "", num |-> args[tmpl[k]]]
        ELSE [lit |-> tmpl[k], num |-> 0]]

---------------------------------------------------------------------------
(* The sample file and the plane configuration *)

IterVals == 0..(MaxIters - 1)

\* Lists of iterations of the sample file, as getPlaneXR returns them in
\* db['timesteps']
IterLists == {s \in SeqsUpTo(IterVals, MaxIters) : Increasing(s)}

\* The time of an iteration in the sample file
TimeOf(i) == 100 + 10 * i

\* Axis selections: raw coordinates and plane-local axes a1, a2, a3
AxisPairs ==
    { <<"x", "y">>, <<"a1", "a2">>, <<"y", "a3">>, <<"a2", "z">> }

KeyLists == {s \in SeqsUpTo(Actions, MaxKeys) : Injective(s)}

\* A merged plane configuration (inputdefs).  keys lists the action keys
\* of the configuration in the order of the yaml file.  trange is "null"
\* for None and "None" for the string 'None'.  loaded is what the sample
\* file holds for the request.
Config(ks, pk, ax, tr, it, ld) ==
    [keys |-> ks, savepklfile |-> pk, xaxis |-> ax[1], yaxis |-> ax[2],
     iplane |-> 1, trange |-> tr, iters |-> it, loaded |-> ld]

\* The plane configurations that are considered: every list of loaded
\* iterations with the default axes and no pickle file; the string 'None'
\* as trange with one iteration requested by iters; every axis pair and
\* pickle file with one iteration loaded.
PlaneConfigs ==
    { Config(ks, "", <<"x", "y">>, "null", <<>>, ld) :
        ks \in KeyLists, ld \in IterLists }
    \cup
    { Config(ks, "", <<"x", "y">>, "None", <<0>>, <<0>>) :
        ks \in KeyLists }
    \cup
    { Config(ks, pk, ax, "null", <<>>, <<0>>) :
        ks \in KeyLists, pk \in {"", "db.pkl"}, ax \in AxisPairs }

NoPlane ==
    [keys |-> <<>>, savepklfile |-> "", xaxis |-> "x", yaxis |-> "y",
     iplane |-> 0, trange |-> "null", iters |-> <<>>, loaded |-> <<>>]

NoDb == [timesteps |-> <<>>, times |-> <<>>, converted |-> FALSE]

\* ppsamplexr.getPlaneXR(..., gettimes=True): the iterations loaded and,
\* parallel to them, their times
getPlaneXR(p) ==
    [timesteps |-> p.loaded,
     times     |-> [k \in 1..Len(p.loaded) |-> TimeOf(p.loaded[k])],
     converted |-> FALSE]

Ev(op, arg) == [op |-> op, arg |-> arg]

NoOut ==
    [action |-> "none", savefile |-> <<>>, imagefilename |-> <<>>,
     times |-> [kind |-> "None", val |-> <<>>], override |-> FALSE,
     readable |-> {}, mkdirs |-> 0, saved |-> <<>>, images |-> <<>>,
     frames |-> <<>>, written |-> FALSE, ntheta |-> 0,
     theta |-> <<>>, inputs |-> {}, nread |-> 0]

\* The keys of the actiondefs list of an action
DeclaredKeys(a) ==
    CASE a = "plot" ->
            {"title", "plotfunc", "clevels", "cmap", "cbar", "cbar_label",
             "cbar_nticks", "xlabel", "ylabel", "xlim", "ylim", "dpi",
             "figsize", "fontsize", "savefile", "postplotfunc", "xscalefunc",
             "yscalefunc", "figname", "axesnumfunc", "axisscale",
             "plotturbines"}
      [] a \in {"animate", "makegif"} ->
            {"name", "fps", "imagefilename", "times"}
      [] a = "plot_radial" ->
            {"title", "plotfunc", "cmap", "cbar", "dpi", "figsize",
             "savefile", "vmin", "vmax", "LR", "NR", "NTheta"}
      [] OTHER -> {}

\* The keys self.actiondict[...] is subscripted with in execute, in the
\* order of the statements
ReadKeys(a) ==
    CASE a = "plot" ->
            <<"plotfunc", "title", "clevels", "cmap", "cbar", "cbar_nticks",
              "cbar_label", "xlabel", "ylabel", "xlim", "ylim", "savefile",
              "dpi", "figsize", "fontsize", "postplotfunc", "xscalefunc",
              "yscalefunc", "figname", "axesnumfunc", "axisscale",
              "plotturbines">>
      [] a = "animate" -> <<"name", "fps", "imagefilename">>
      [] a = "makegif" -> <<"name", "fps", "imagefilename", "times">>
      [] a = "plot_radial" ->
            <<"plotfunc", "title", "cmap", "cbar", "savefile", "dpi",
              "figsize", "NR", "NTheta", "LR", "vmin", "vmax", "xc", "yc">>
      [] OTHER -> <<>>

\* The keys a configuration gives to an action: those the model draws a
\* value for and the keys marked required; for plot_radial, with or
\* without the centre xc, yc of the example input
InputKeys(a) ==
    CASE a = "plot" -> {{"savefile"}}
      [] a = "animate" -> {{"name", "imagefilename"}}
      [] a = "makegif" -> {{"name", "imagefilename", "times"}}
      [] a = "plot_radial" ->
            {{"savefile", "LR", "NR", "NTheta"},
             {"savefile", "LR", "NR", "NTheta", "xc", "yc"}}
      [] OTHER -> {{}}

\* The keys of mergedicts(inputs, self.actiondefs): the keys given, and
\* every declared key, with its default when it is not given.  The inputs
\* of the model hold every key marked required.
mergedicts(inputs, a) == inputs \cup DeclaredKeys(a)

\* The position in ReadKeys of the first key the merged dictionary lacks,
\* 0 if it has them all
FirstMissing(a, keys) ==
    LET missing == {k \in 1..Len(ReadKeys(a)) : ReadKeys(a)[k] \notin keys}
    IN  IF missing = {} THEN 0
        ELSE CHOOSE k \in missing : \A j \in missing : k <= j

\* self.actiondict[key] raises KeyError for a key the dictionary lacks
OptionError(a, keys) ==
    IF FirstMissing(a, keys) = 0 THEN "none" ELSE "KeyError: option"

\* The number of subscripts of self.actiondict execute has evaluated when
\* it goes on or raises: the first of ReadKeys up to the missing one
OptionsRead(a, keys) ==
    IF FirstMissing(a, keys) = 0 THEN Len(ReadKeys(a)) ELSE FirstMissing(a, keys)

\* The effects o of execute on the keys given (inputs) and merged (keys),
\* with the number of keys read; nothing else is done when a key is
\* missing
WithOptions(o, a, inputs, keys) ==
    IF OptionError(a, keys) = "none"
    THEN [o EXCEPT !.inputs = inputs, !.nread = OptionsRead(a, keys)]
    ELSE [NoOut EXCEPT !.action = a, !.inputs = inputs,
                       !.nread = OptionsRead(a, keys)]

\* The exception execute ends with: that of a missing key, else e
WithOptionError(e, a, keys) ==
    IF OptionError(a, keys) = "none" THEN e ELSE OptionError(a, keys)

---------------------------------------------------------------------------
(* Sub-action options *)

\* Values of the times option of makegif: None (also the default when the
\* key is absent), a yaml list, a string that is no valid expression, a
\* string holding a list literal, a string holding a number.
OverrideLists ==
    {s \in SeqsUpTo({TimeOf(i) : i \in IterVals}, MaxIters) :
        Len(s) > 0 /\ Increasing(s)}

TimesOptions ==
    { [kind |-> "None", val |-> <<>>], [kind |-> "badstr", val |-> <<>>],
      [kind |-> "numstr", val |-> <<>>] }
    \cup { [kind |-> "list", val |-> l] : l \in OverrideLists }
    \cup { [kind |-> "liststr", val |-> l] : l \in OverrideLists }

\* The imagefilename and times options of makegif that are considered:
\* every template without times, and every times value with a template
\* that holds {time} alone and with one that holds all three fields
GifOptions ==
    { <<tmpl, [kind |-> "None", val |-> <<>>]>> : tmpl \in ImageTemplates }
    \cup
    ( { <<"img", "time">>, <<"img", "time", "iplane", "iter">> } \X TimesOptions )

\* eval(x) returns a value for a string holding a valid expression and
\* raises for anything else (TypeError for None or a list, SyntaxError or
\* NameError for a bad string)
EvalOK(t) == t.kind \in {"liststr", "numstr"}

\* len(x) raises TypeError for a number
HasLen(t) == t.kind # "numstr"

---------------------------------------------------------------------------
(* plot.execute *)

\* Variant: the position in the list is passed as iter
PlotFormatArgsByPosition(time, iplane, i, iplot) ==
    [time |-> time, iplane |-> iplane, iter |-> iplot]

\* savefile.format(time=time, iplane=iplane, iter=i)
PlotFormatArgs(time, iplane, i, iplot) ==
    [time |-> time, iplane |-> iplane, iter |-> i]

\* The arrays a1, a2, a3 are in the dataset once compute_axis1axis2_coords
\* has put them there; x, y, z are loaded with it
HasAxis(d, axis) == axis \in {"a1", "a2", "a3"} => d.converted

\* self.parent.db[self.parent.xaxis], self.parent.db[self.parent.yaxis] in
\* the first pass of the loop: KeyError for an array the dataset lacks
PlotError(p, d, its) ==
    IF Len(its) > 0 /\ ~(HasAxis(d, p.xaxis) /\ HasAxis(d, p.yaxis))
    THEN "KeyError: axis"
    ELSE "none"

\* the loop over enumerate(self.parent.iters): one savefig per iteration
\* when savefile is not empty
PlotExecute(p, d, its, savefile) ==
    LET named == Len(savefile) > 0 /\ PlotError(p, d, its) = "none"
        fname(k) == Format(savefile, PlotFormatArgs(d.times[k], p.iplane, its[k], k - 1))
    IN  [NoOut EXCEPT
            !.action = "plot",
            !.savefile = savefile,
            !.mkdirs = IF named THEN Len(its) ELSE 0,
            !.saved = IF named THEN [k \in 1..Len(its) |-> fname(k)] ELSE <<>>]

---------------------------------------------------------------------------
(* animate.execute *)

\* cv2.imread returns None for a file that is missing or no image; the
\* empty path names no file
ReadableSets(images) == SUBSET (Range(images) \ {<<>>})

\* imagefilename.format(time=time, iplane=iplane, iter=i)
AnimateFormatArgs(time, iplane, i) ==
    [time |-> time, iplane |-> iplane, iter |-> i]

AnimateImages(p, d, its, imagefilename) ==
    [k \in 1..Len(its) |->
        Format(imagefilename, AnimateFormatArgs(d.times[k], p.iplane, its[k]))]

\* for image in images: video.write(cv2.imread(image)); write raises
\* cv2.error when handed None, which ends the loop
AnimateFrames(images, R) ==
    LET bad == {k \in 1..Len(images) : images[k] \notin R}
    IN  IF bad = {} THEN images
        ELSE SubSeq(images, 1, (CHOOSE k \in bad : \A j \in bad : k <= j) - 1)

\* images[0] raises IndexError on an empty list; frame.shape raises
\* AttributeError when the first image cannot be read
AnimateError(images, R) ==
    IF Len(images) = 0 THEN "IndexError"
    ELSE IF images[1] \notin R THEN "AttributeError"
    ELSE IF \E k \in 1..Len(images) : images[k] \notin R THEN "cv2.error"
    ELSE "none"

AnimateExecute(p, d, its, imagefilename, R) ==
    LET images == AnimateImages(p, d, its, imagefilename)
        e == AnimateError(images, R)
    IN  [NoOut EXCEPT
            !.action = "animate",
            !.imagefilename = imagefilename,
            !.readable = R,
            !.mkdirs = 1,
            !.images = images,
            !.frames = IF e \in {"none", "cv2.error"}
                       THEN AnimateFrames(images, R) ELSE <<>>,
            !.written = (e = "none")]

---------------------------------------------------------------------------
(* makegif.execute *)

\* imagefilename.format(time=time, iplane=iplane)
GifFormatArgs(time, iplane, i) ==
    [time |-> time, iplane |-> iplane]

\* Variant: override_times is set whether or not eval raised
OverrideTimesAlways(t) == TRUE

\* try: times = eval(...); override_times = True / except: False
OverrideTimes(t) == EvalOK(t)

\* the (time, i) pairs of the loop over enumerate(iters)
GifEntries(t, d, its) ==
    IF OverrideTimes(t)
    THEN [k \in 1..Len(t.val) |-> [time |-> t.val[k], i |-> k - 1]]
    ELSE [k \in 1..Len(its) |-> [time |-> d.times[k], i |-> its[k]]]

GifError(p, t, d, its, imagefilename) ==
    IF OverrideTimes(t) /\ ~HasLen(t) THEN "TypeError"
    ELSE IF /\ Len(GifEntries(t, d, its)) > 0
            /\ ~FormatOK(imagefilename, GifFormatArgs(0, p.iplane, 0))
         THEN "KeyError"
    ELSE "none"

GifImages(p, t, d, its, imagefilename) ==
    LET en == GifEntries(t, d, its)
    IN  [k \in 1..Len(en) |->
            Format(imagefilename, GifFormatArgs(en[k].time, p.iplane, en[k].i))]

\* Variant: the frames are collected last first
GifFramesReversed(images, R) ==
    LET IsRead(f) == f \in R
        sel == SelectSeq(images, IsRead)
    IN  [k \in 1..Len(sel) |-> sel[Len(sel) + 1 - k]]

\* for f in images: img = cv2.imread(f); if img is not None: append
GifFrames(images, R) ==
    LET IsRead(f) == f \in R
    IN  SelectSeq(images, IsRead)

\* imageio.mimsave(video_name, imagedat, fps=fps): imageio is outside this
\* file, and its releases differ on an empty list of frames: some write
\* nothing and raise RuntimeError, some return
MimsaveErrors(frames) ==
    IF Len(frames) = 0 THEN {"none", "RuntimeError"} ELSE {"none"}

\* the body of makegif.execute once imageio is known to be there; w is the
\* exception mimsave ends with
GifExecute(p, d, its, imagefilename, t, R, w) ==
    LET e == GifError(p, t, d, its, imagefilename)
        images == IF e = "none" THEN GifImages(p, t, d, its, imagefilename) ELSE <<>>
    IN  [NoOut EXCEPT
            !.action = "makegif",
            !.imagefilename = imagefilename,
            !.times = t,
            !.override = OverrideTimes(t),
            !.readable = R \cap Range(images),
            !.mkdirs = 1,
            !.images = images,
            !.frames = GifFrames(images, R),
            !.written = (e = "none" /\ w = "none")]

\* Variant: the check of hasimageio follows os.makedirs
GifUnavailableAfterMakedirs == [NoOut EXCEPT !.action = "makegif", !.mkdirs = 1]

\* if (not hasimageio): print(...); return
GifUnavailable == [NoOut EXCEPT !.action = "makegif"]

---------------------------------------------------------------------------
(* plot_radial.execute *)

\* The NTheta option: the numbers of angular samples that are considered
NThetaVals == 1..MaxTheta

\* The savefile and NTheta options of plot_radial: every template with the
\* smallest grid, every grid with no file saved
RadialOptions ==
    {<<savefile, 1>> : savefile \in Templates}
        \cup {<<<<>>, NTheta>> : NTheta \in NThetaVals}

\* np.linspace(0, LTheta, num) with LTheta = 2*pi: num samples, the k-th
\* (from 0) at k*step with step = LTheta/(num - 1), the last at LTheta.  An
\* angle is held as the fraction num/den of LTheta.
Linspace(num) ==
    [k \in 1..num |->
        IF num = 1 THEN [num |-> 0, den |-> 1]
        ELSE [num |-> k - 1, den |-> num - 1]]

\* Variant: np.linspace(0, LTheta, NTheta), the end point kept
ThetaGridClosed(NTheta) == Linspace(NTheta)

\* theta = np.linspace(0,LTheta,NTheta+1)[0:-1]
ThetaGrid(NTheta) == SubSeq(Linspace(NTheta + 1), 1, NTheta)

\* savefile.format(time=time, iplane=iplane)
RadialFormatArgs(time, iplane, i) ==
    [time |-> time, iplane |-> iplane]

RadialError(p, its, savefile) ==
    IF /\ Len(savefile) > 0
       /\ Len(its) > 0
       /\ ~FormatOK(savefile, RadialFormatArgs(0, p.iplane, 0))
    THEN "KeyError"
    ELSE "none"

RadialExecute(p, d, its, savefile, NTheta) ==
    LET named == Len(savefile) > 0 /\ RadialError(p, its, savefile) = "none"
        fname(k) == Format(savefile, RadialFormatArgs(d.times[k], p.iplane, its[k]))
    IN  [NoOut EXCEPT
            !.action = "plot_radial",
            !.savefile = savefile,
            !.ntheta = NTheta,
            !.theta = ThetaGrid(NTheta),
            !.mkdirs = IF named THEN Len(its) ELSE 0,
            !.saved = IF named THEN [k \in 1..Len(its) |-> fname(k)] ELSE <<>>]

---------------------------------------------------------------------------
(* execute: the plane loop *)

Init ==
    /\ hasimageio \in BOOLEAN
    /\ required \in RequiredFlags
    /\ planeiter = 0
    /\ plane = NoPlane
    /\ pc = "loop"
    /\ db = NoDb
    /\ iters = <<>>
    /\ ai = 1
    /\ events = <<>>
    /\ out = NoOut
    /\ err = "none"

\* for planeiter, plane in enumerate(self.yamldictlist): read the plane's
\* options and load the plane
LoadPlane ==
    /\ pc = "loop"
    /\ planeiter < MaxPlanes
    /\ \E p \in PlaneConfigs :
        /\ plane' = p
        /\ db' = getPlaneXR(p)
        /\ iters' = p.iters
    /\ planeiter' = planeiter + 1
    /\ events' = <<Ev("load", "")>>
    /\ pc' = "convert"
    /\ UNCHANGED <<hasimageio, required, ai, out, err>>

\* the end of the plane loop: return
Return ==
    /\ pc = "loop"
    /\ pc' = "returned"
    /\ UNCHANGED <<hasimageio, required, planeiter, plane, db, iters, ai, events, out, err>>

\* Variant: the test of 'a3' is left out
NeedsConversionWithoutA3(xaxis, yaxis) ==
    \/ "a1" \in {xaxis, yaxis}
    \/ "a2" \in {xaxis, yaxis}

\* 'a1', 'a2' or 'a3' in [self.xaxis, self.yaxis]
NeedsConversion(xaxis, yaxis) ==
    \/ "a1" \in {xaxis, yaxis}
    \/ "a2" \in {xaxis, yaxis}
    \/ "a3" \in {xaxis, yaxis}

\* Convert to native axis1/axis2 coordinates if necessary
ConvertCoords ==
    /\ pc = "convert"
    /\ IF NeedsConversion(plane.xaxis, plane.yaxis)
       THEN /\ db' = [db EXCEPT !.converted = TRUE]
            /\ events' = Append(events, Ev("compute_axis1axis2_coords", ""))
       ELSE UNCHANGED <<db, events>>
    /\ pc' = "iters"
    /\ UNCHANGED <<hasimageio, required, planeiter, plane, iters, ai, out, err>>

\* if not self.trange == 'None': iters = self.db['timesteps']
ResolvedIters(p, d, its) ==
    IF ~(p.trange = "None") THEN d.timesteps ELSE its

\* self.iters = iters
ResolveIters ==
    /\ pc = "iters"
    /\ iters' = ResolvedIters(plane, db, iters)
    /\ pc' = "pickle"
    /\ UNCHANGED <<hasimageio, required, planeiter, plane, db, ai, events, out, err>>

\* Variant: len(savepklfile)>=0
WritesPickleAlways(savepklfile) == TRUE

\* if len(savepklfile)>0
WritesPickle(savepklfile) == savepklfile # ""

\* Write out the picklefile
SavePickle ==
    /\ pc = "pickle"
    /\ events' = IF WritesPickle(plane.savepklfile)
                 THEN Append(events, Ev("pickle.dump", plane.savepklfile))
                 ELSE events
    /\ pc' = "actions"
    /\ UNCHANGED <<hasimageio, required, planeiter, plane, db, iters, ai, out, err>>

---------------------------------------------------------------------------
(* execute: the action loop *)

\* Variant: the loop follows the keys of the plane's configuration first
LoopOrderByKeys(p) ==
    LET NotKey(a) == a \notin Range(p.keys)
    IN  p.keys \o SelectSeq(ActionOrder, NotKey)

\* for a in self.actionlist
LoopOrder(p) == ActionOrder

\* action.actionname in self.yamldictlist[planeiter].keys()
Configured(a, p) == a \in Range(p.keys)

\* Variant: the test of the key is not negated
MissingRequiredInverted(a, p) == required[a] /\ a \in Range(p.keys)

\* action.required and (action.actionname not in ....keys())
MissingRequired(a, p) == required[a] /\ ~Configured(a, p)

AtAction(a) ==
    /\ pc = "actions"
    /\ ai <= Len(LoopOrder(plane))
    /\ LoopOrder(plane)[ai] = a

\* The loop goes on to the next action, or ends after the last
Advance ==
    /\ ai' = ai + 1
    /\ pc' = IF ai + 1 > Len(LoopOrder(plane)) THEN "next" ELSE "actions"

\* An exception leaves execute
Raise(e) ==
    /\ err' = e
    /\ pc' = "raised"
    /\ ai' = ai

\* actionitem = action(self, ...); actionitem.execute(), with the effects o
\* of execute and the exception e it ends with
RunAction(a, o, e) ==
    /\ events' = events \o <<Ev("init", a), Ev("execute", a)>>
    /\ out' = o
    /\ IF e = "none" THEN Advance /\ err' = err ELSE Raise(e)
    /\ UNCHANGED <<hasimageio, required, planeiter, plane, db, iters>>

\* raise ValueError('Required action %s not present')
RaiseRequired ==
    /\ \E a \in Actions : AtAction(a) /\ MissingRequired(a, plane)
    /\ Raise("ValueError")
    /\ UNCHANGED <<hasimageio, required, planeiter, plane, db, iters, events, out>>

\* neither if of the loop body holds: the action is passed over
SkipAction ==
    /\ \E a \in Actions :
        AtAction(a) /\ ~MissingRequired(a, plane) /\ ~Configured(a, plane)
    /\ Advance
    /\ out' = NoOut
    /\ UNCHANGED <<hasimageio, required, planeiter, plane, db, iters, events, err>>

RunPlot ==
    /\ AtAction("plot")
    /\ ~MissingRequired("plot", plane) /\ Configured("plot", plane)
    /\ \E savefile \in Templates, inputs \in InputKeys("plot") :
        LET keys == mergedicts(inputs, "plot")
        IN  RunAction("plot",
                      WithOptions(PlotExecute(plane, db, iters, savefile),
                                  "plot", inputs, keys),
                      WithOptionError(PlotError(plane, db, iters), "plot", keys))

\* interpolatetemplate.execute is defined outside this file: only the call
\* is recorded
RunInterpolate ==
    /\ AtAction("interpolate")
    /\ ~MissingRequired("interpolate", plane) /\ Configured("interpolate", plane)
    /\ RunAction("interpolate", [NoOut EXCEPT !.action = "interpolate"], "none")

RunAnimate ==
    /\ AtAction("animate")
    /\ ~MissingRequired("animate", plane) /\ Configured("animate", plane)
    /\ \E imagefilename \in ImageTemplates, inputs \in InputKeys("animate") :
        \E R \in ReadableSets(AnimateImages(plane, db, iters, imagefilename)) :
            LET keys == mergedicts(inputs, "animate")
            IN  RunAction("animate",
                          WithOptions(AnimateExecute(plane, db, iters, imagefilename, R),
                                      "animate", inputs, keys),
                          WithOptionError(
                              AnimateError(AnimateImages(plane, db, iters, imagefilename), R),
                              "animate", keys))

RunMakegif ==
    /\ AtAction("makegif")
    /\ ~MissingRequired("makegif", plane) /\ Configured("makegif", plane)
    /\ IF ~hasimageio
       THEN \E inputs \in InputKeys("makegif") :
            RunAction("makegif",
                      [GifUnavailable EXCEPT !.inputs = inputs],
                      "none")
       ELSE \E opt \in GifOptions, inputs \in InputKeys("makegif") :
            LET imagefilename == opt[1]
                keys == mergedicts(inputs, "makegif")
                t == opt[2]
                e == GifError(plane, t, db, iters, imagefilename)
                images == IF e = "none"
                          THEN GifImages(plane, t, db, iters, imagefilename)
                          ELSE <<>>
            IN  \E R \in ReadableSets(images) :
                    \E w \in (IF e = "none"
                              THEN MimsaveErrors(GifFrames(images, R))
                              ELSE {"none"}) :
                        RunAction("makegif",
                                  WithOptions(
                                      GifExecute(plane, db, iters, imagefilename, t, R, w),
                                      "makegif", inputs, keys),
                                  WithOptionError(IF e = "none" THEN w ELSE e,
                                                  "makegif", keys))

RunPlotRadial ==
    /\ AtAction("plot_radial")
    /\ ~MissingRequired("plot_radial", plane) /\ Configured("plot_radial", plane)
    /\ \E opt \in RadialOptions, inputs \in InputKeys("plot_radial") :
        LET savefile == opt[1]
            NTheta == opt[2]
            keys == mergedicts(inputs, "plot_radial")
        IN  RunAction("plot_radial",
                      WithOptions(RadialExecute(plane, db, iters, savefile, NTheta),
                                  "plot_radial", inputs, keys),
                      WithOptionError(RadialError(plane, iters, savefile),
                                      "plot_radial", keys))

\* The body of the plane loop is done.  The next pass assigns the plane's
\* options, self.db and self.iters before it reads them, so what this pass
\* left in them is dropped here.
NextPlane ==
    /\ pc = "next"
    /\ pc' = "loop"
    /\ plane' = NoPlane
    /\ db' = NoDb
    /\ iters' = <<>>
    /\ ai' = 1
    /\ events' = <<>>
    /\ out' = NoOut
    /\ UNCHANGED <<hasimageio, required, planeiter, err>>

Next ==
    \/ LoadPlane
    \/ ConvertCoords
    \/ ResolveIters
    \/ SavePickle
    \/ RaiseRequired
    \/ SkipAction
    \/ RunPlot
    \/ RunInterpolate
    \/ RunAnimate
    \/ RunMakegif
    \/ RunPlotRadial
    \/ NextPlane
    \/ Return

Spec == Init /\ [][Next]_vars

---------------------------------------------------------------------------
(* Properties *)

\* The name a template resolves to for one frame
ExpectedName(tmpl, time, iplane, iter) ==
    [j \in 1..Len(tmpl) |->
        CASE tmpl[j] = "time"   -> [lit |-> "", num |-> time]
          [] tmpl[j] = "iplane" -> [lit |-> "", num |-> iplane]
          [] tmpl[j] = "iter"   -> [lit |-> "", num |-> iter]
          [] OTHER              -> [lit |-> tmpl[j], num |-> 0]]

RegIndex(a) == CHOOSE k \in 1..Len(ActionOrder) : ActionOrder[k] = a

InitCount(a) == Cardinality(Positions(events, Ev("init", a)))

ExecCount(a) == Cardinality(Positions(events, Ev("execute", a)))

ActionEvents == {k \in 1..Len(events) : events[k].op \in {"init", "execute"}}

InActionLoop == pc \in {"actions", "next", "raised"}

Unreadable(o) == {k \in 1..Len(o.images) : o.images[k] \notin o.readable}

ReadableFrames(o) ==
    LET IsRead(f) == f \in o.readable
    IN  SelectSeq(o.images, IsRead)

\* C1: in the action loop of execute, an action that is required and whose
\* key is absent makes execute raise (the loop never passes it), an action
\* that is not required and whose key is absent is neither constructed nor
\* executed, and an action whose key is present is constructed once and its
\* execute called once when the loop reaches it.
C1_DispatchContract ==
    InActionLoop =>
        \A k \in 1..Len(ActionOrder) :
            LET a == ActionOrder[k]
                present == a \in Range(plane.keys)
            IN  /\ k < ai =>
                    /\ ~(required[a] /\ ~present)
                    /\ InitCount(a) = (IF present THEN 1 ELSE 0)
                    /\ ExecCount(a) = (IF present THEN 1 ELSE 0)
                /\ (k = ai /\ pc = "raised" /\ err = "ValueError") =>
                    /\ required[a] /\ ~present
                    /\ InitCount(a) = 0 /\ ExecCount(a) = 0
                /\ (k = ai /\ pc = "raised" /\ err # "ValueError") =>
                    /\ present
                    /\ InitCount(a) = 1 /\ ExecCount(a) = 1
                /\ (k = ai /\ pc = "actions") =>
                    InitCount(a) = 0 /\ ExecCount(a) = 0
                /\ k > ai => InitCount(a) = 0 /\ ExecCount(a) = 0

\* C1 witness: execute has raised for a missing required action after it
\* ran a configured one
C1_Witness ==
    /\ pc = "raised" /\ err = "ValueError"
    /\ ExecCount("plot") = 1
    /\ required["interpolate"] /\ "interpolate" \notin Range(plane.keys)

\* C2: the actions of a plane are constructed and executed in the order of
\* their registration, whatever the order of the keys in the configuration,
\* and each is constructed and executed before the next one is constructed.
C2_RegistrationOrder ==
    /\ \A j, k \in ActionEvents :
        j < k => RegIndex(events[j].arg) <= RegIndex(events[k].arg)
    /\ \A k \in ActionEvents :
        events[k].op = "init" =>
            k < Len(events) /\ events[k + 1] = Ev("execute", events[k].arg)

\* C2 witness: two actions ran whose keys stand in the other order in the
\* configuration
C2_Witness ==
    /\ plane.keys = <<"plot_radial", "plot">>
    /\ ExecCount("plot") = 1 /\ ExecCount("plot_radial") = 1

\* C3 as stated: with a savefile template, plot leaves exactly N files for
\* N resolved iterations.
C3_OneFilePerIteration ==
    (out.action = "plot" /\ Len(out.savefile) > 0) =>
        Cardinality(Range(out.saved)) = Len(iters)

\* C3 amended: with a non-empty savefile, plot saves exactly N times for N
\* resolved iterations, the k-th time to the name that the template gives
\* for the k-th time of the dataset, the plane index and the k-th
\* iteration; these are N files when the template holds {time} or {iter};
\* with an empty savefile nothing is saved.
C3_OneSavePerIteration ==
    out.action = "plot" =>
        IF Len(out.savefile) = 0
        THEN out.saved = <<>>
        ELSE /\ Len(out.saved) = Len(iters)
             /\ \A k \in 1..Len(iters) :
                    out.saved[k] =
                        ExpectedName(out.savefile, db.times[k], plane.iplane, iters[k])
             /\ (\E j \in 1..Len(out.savefile) : out.savefile[j] \in {"time", "iter"})
                    => Cardinality(Range(out.saved)) = Len(iters)

\* C3 witness: plot saved a file named by {iter} for an iteration whose
\* number is not its position in the list
C3_Witness ==
    /\ out.action = "plot"
    /\ Len(out.saved) > 0
    /\ "iter" \in Range(out.savefile)
    /\ iters[1] # 0

\* C4 as stated: no action that resolves a template per frame raises for a
\* template that holds {time}, {iplane} or {iter}.
C4_AllFieldsAccepted ==
    out.action \in {"plot", "plot_radial", "animate", "makegif"} => err # "KeyError"

\* C5: when the times option of makegif is None or a value on which eval
\* raises, makegif does not raise for it and takes its frames from the
\* iteration list and the times of the dataset, frame k with db['times'][k].
C5_TimesFallback ==
    (out.action = "makegif" /\ hasimageio
        /\ out.times.kind \in {"None", "badstr", "list"}) =>
        /\ ~out.override
        /\ err \in {"none", "KeyError", "RuntimeError"}
        /\ err = "KeyError" => "iter" \in Range(out.imagefilename)
        /\ err = "RuntimeError" => out.frames = <<>>
        /\ err \in {"none", "RuntimeError"} =>
            /\ Len(out.images) = Len(iters)
            /\ \A k \in 1..Len(iters) :
                \A j \in 1..Len(out.imagefilename) :
                    out.imagefilename[j] = "time" =>
                        out.images[k][j] = [lit |-> "", num |-> db.times[k]]

\* C5 witness: makegif built its frames after eval raised on times
C5_Witness ==
    /\ out.action = "makegif" /\ hasimageio
    /\ out.times.kind = "badstr"
    /\ err = "none"
    /\ Len(out.images) = MaxIters
    /\ "time" \in Range(out.imagefilename)

\* C6: without imageio, makegif returns without raising, creates no
\* directory and writes nothing, and the loop goes on: a configured action
\* registered after makegif is executed.
C6_NoImageio ==
    /\ (~hasimageio /\ out.action = "makegif") =>
        /\ err = "none" /\ pc # "raised"
        /\ out.mkdirs = 0 /\ out.saved = <<>> /\ out.frames = <<>> /\ ~out.written
    /\ (~hasimageio /\ ExecCount("makegif") = 1 /\ pc = "next"
            /\ "plot_radial" \in Range(plane.keys)) =>
        ExecCount("plot_radial") = 1

\* C6 witness: without imageio, the second plane ran makegif and then
\* plot_radial
C6_Witness ==
    /\ ~hasimageio
    /\ planeiter = MaxPlanes
    /\ ExecCount("makegif") = 1
    /\ out.action = "plot_radial"

\* C7 as stated: animate and makegif skip a frame that cannot be read,
\* wherever it stands, and encode the others.
C7_UnreadableSkipped ==
    (out.action \in {"animate", "makegif"} /\ Unreadable(out) # {}) =>
        /\ err = "none"
        /\ out.written
        /\ out.frames = ReadableFrames(out)

\* C8 as stated: the k-th frame written is the image of the k-th entry of
\* the list.
C8_FramePerEntry ==
    (out.action \in {"animate", "makegif"} /\ out.written) =>
        \A k \in 1..Len(out.frames) : out.frames[k] = out.images[k]

\* C8 amended: the frames written are, in the order of the list, the
\* images of the list that can be read: none is reordered or written
\* twice, and an image that cannot be read is left out, so the k-th frame
\* written is the image of the k-th entry when every image can be read.
C8_FramesInListOrder ==
    out.action \in {"animate", "makegif"} =>
        /\ IsPrefix(out.frames, ReadableFrames(out))
        /\ out.written => out.frames = ReadableFrames(out)
        /\ (out.written /\ Unreadable(out) = {}) => out.frames = out.images
        /\ out.action = "animate" =>
            \A k \in 1..Len(out.images) :
                out.images[k] =
                    ExpectedName(out.imagefilename, db.times[k], plane.iplane, iters[k])

\* C8 witness: makegif wrote two different frames
C8_Witness ==
    /\ out.action = "makegif" /\ out.written
    /\ Len(out.frames) = MaxIters
    /\ out.frames[1] # out.frames[2]

\* C9: the dataset is dumped once for a plane if savepklfile is not empty
\* and not at all if it is, after the load and before any action is
\* constructed.
C9_PickleOnce ==
    LET dumps == {k \in 1..Len(events) : events[k].op = "pickle.dump"}
    IN  /\ InActionLoop =>
            Cardinality(dumps) = (IF plane.savepklfile # "" THEN 1 ELSE 0)
        /\ pc \in {"loop", "convert", "iters", "pickle"} => dumps = {}
        /\ \A k \in dumps :
            /\ \E j \in 1..(k - 1) : events[j].op = "load"
            /\ \A j \in ActionEvents : k < j

\* C9 witness: a plane dumped its dataset and then ran an action
C9_Witness ==
    /\ \E k \in 1..Len(events) : events[k].op = "pickle.dump"
    /\ ActionEvents # {}

\* C10 as stated: with an explicit list of M times as the times option,
\* makegif builds M frame paths from the list and not from the parent.
C10_ExplicitTimes ==
    (out.action = "makegif" /\ hasimageio
        /\ out.times.kind \in {"list", "liststr"}) =>
        /\ out.override
        /\ err \in {"none", "RuntimeError"} =>
            /\ Len(out.images) = Len(out.times.val)
            /\ \A k \in 1..Len(out.images) :
                \A j \in 1..Len(out.imagefilename) :
                    out.imagefilename[j] = "time" =>
                        out.images[k][j] = [lit |-> "", num |-> out.times.val[k]]

\* C11: in plot_radial the angular array has NTheta entries, the k-th
\* (from 0) equal to k*2*pi/NTheta: the entries are distinct, lie in
\* [0, 2*pi), and 2*pi is not among them.  An entry num/den stands for the
\* angle 2*pi*num/den.
C11_ThetaGrid ==
    out.action = "plot_radial" =>
        /\ Len(out.theta) = out.ntheta
        /\ \A k \in 1..Len(out.theta) :
            /\ out.theta[k].den > 0
            /\ out.theta[k].num * out.ntheta = (k - 1) * out.theta[k].den
            /\ 0 <= out.theta[k].num /\ out.theta[k].num < out.theta[k].den
        /\ \A j, k \in 1..Len(out.theta) :
            j # k => out.theta[j].num * out.theta[k].den
                        # out.theta[k].num * out.theta[j].den

\* C11 witness: plot_radial built the angular array for the largest NTheta
C11_Witness ==
    /\ out.action = "plot_radial"
    /\ out.ntheta = MaxTheta
    /\ Len(out.theta) = MaxTheta

\* C12: the dataset of a plane is loaded once, first of all; the coordinate
\* transform is applied to it exactly when xaxis or yaxis is a1, a2 or a3,
\* and then once, after the load, before the snapshot is written and
\* before any action is constructed, so that no action misses an axis array.
C12_ConvertWhenLocalAxis ==
    LET loads == {k \in 1..Len(events) : events[k].op = "load"}
        convs == {k \in 1..Len(events) : events[k].op = "compute_axis1axis2_coords"}
        dumps == {k \in 1..Len(events) : events[k].op = "pickle.dump"}
        local == plane.xaxis \in {"a1", "a2", "a3"} \/ plane.yaxis \in {"a1", "a2", "a3"}
    IN  /\ pc \notin {"loop", "returned"} => loads = {1}
        /\ pc = "convert" => convs = {} /\ ~db.converted
        /\ pc \in {"iters", "pickle", "actions", "next", "raised"} =>
            /\ Cardinality(convs) = (IF local THEN 1 ELSE 0)
            /\ db.converted = local
        /\ \A k \in convs :
            /\ \E j \in loads : j < k
            /\ \A j \in dumps \cup ActionEvents : k < j
        /\ err # "KeyError: axis"

\* C12 witness: a plane with a plane-local axis was converted, dumped and
\* plotted
C12_Witness ==
    /\ plane.yaxis = "a3"
    /\ db.converted
    /\ \E k \in 1..Len(events) : events[k].op = "pickle.dump"
    /\ out.action = "plot" /\ Len(out.saved) > 0

\* C13 as stated: when execute raises for a missing required action, no
\* action of that plane has been constructed or executed.
C13_FailFast ==
    (pc = "raised" /\ err = "ValueError") => ActionEvents = {}

\* C14 as stated: for plot, animate, makegif and plot_radial, every key
\* execute reads from the merged configuration is declared in actiondefs,
\* and an action configured with declared keys only does not fail on a
\* missing key.
C14_ReadsDeclared ==
    out.action \in {"plot", "animate", "makegif", "plot_radial"} =>
        /\ \A k \in 1..out.nread :
            ReadKeys(out.action)[k] \in DeclaredKeys(out.action)
        /\ out.inputs \subseteq DeclaredKeys(out.action) => err # "KeyError: option"

====
